---- MODULE Spec2Model ----
(***************************************************************************)
(* Model of nomgen (src/nomgen/nomgen.go): the generator context NG with   *)
(* its two sets written / toWrite, the work-list loop of WriteGo, the      *)
(* shape emitters and the name resolver getGoStructName.                   *)
(*                                                                         *)
(* A noms value is [k, v]: k = "S" for a types.String carrying the Go      *)
(* string v, k = "M" for a types.Map carrying the function v from key      *)
(* strings to values, k = "N" for the nil interface that Map.Get returns   *)
(* for a missing key.  Equality of these values is structural.             *)
(***************************************************************************)
EXTENDS Integers, Sequences, FiniteSets, TLC

VARIABLES root, declared, written, toWrite, pc, t, iter, out, calls, iters, panicIn,
          faulty, lost, prevs,
          heap, dss, store, loc, upc, runs,
          shared, ng, proc

\* the state of the generator (package nomgen)
nomgenVars == <<root, declared, written, toWrite, pc, t, iter, out, calls, iters, panicIn,
                faulty, lost, prevs>>

\* the state of the test of the user collection (package user)
userVars == <<heap, dss, store, loc, upc, runs>>

\* the state of two calls of WriteGo that run at the same time
concVars == <<shared, ng, proc>>

vars == <<nomgenVars, userVars, concVars>>

\* what no statement of WriteGo changes
outside == <<faulty, prevs, userVars, concVars>>

(***************************************************************************)
(* Bounds of the model.                                                    *)
(***************************************************************************)
\* largest number of nodes (scalars and mappings) of a root type definition
MaxSize == 4

\* largest number of nodes of a root in the runs checked for termination
LiveMaxSize == 3

(***************************************************************************)
(* The value library (package types).                                      *)
(***************************************************************************)
NewString(s) == [k |-> "S", v |-> s]

NewMap(f) == [k |-> "M", v |-> f]

Nil == [k |-> "N", v |-> ""]

IsString(val) == val.k = "S"

IsMap(val) == val.k = "M"

Get(m, key) == IF key \in DOMAIN m.v THEN m.v[key] ELSE Nil

\* the stored key order of a mapping: ascending byte order of the keys
KeyOrder == <<"$name", "$type", "age", "elem", "email", "key", "value">>

\* Map.Iter: the entries <<k, v>> of m in stored key order
Iter(m) ==
    LET ks == SelectSeq(KeyOrder, LAMBDA key : key \in DOMAIN m.v)
    IN  [i \in 1..Len(ks) |-> <<ks[i], m.v[ks[i]]>>]

(***************************************************************************)
(* The panic raised by Chk.Fail, a failed type assertion or an index out   *)
(* of range: a result that is no Go string.                                *)
(***************************************************************************)
Panic == "!panic"

\* fmt.Sprintf of a format that concatenates its arguments and a suffix;
\* the arguments are evaluated first, so a panic in one of them propagates
RECURSIVE Sprintf(_)
Sprintf(parts) ==
    IF parts = <<>> THEN ""
    ELSE IF Head(parts) = Panic THEN Panic
    ELSE LET rest == Sprintf(Tail(parts))
         IN  IF rest = Panic THEN Panic ELSE Head(parts) \o rest

\* the scalar names accepted by getGoStructName
NomsTypeNames ==
    {"bool", "int16", "int32", "int64", "uint16", "uint32", "uint64",
     "float32", "float64", "blob", "string", "set", "map", "value"}

\* strings.Title on the one-word strings the generator passes to it
Title(s) ==
    CASE s = "bool" -> "Bool"
      [] s = "int16" -> "Int16"
      [] s = "int32" -> "Int32"
      [] s = "int64" -> "Int64"
      [] s = "uint16" -> "Uint16"
      [] s = "uint32" -> "Uint32"
      [] s = "uint64" -> "Uint64"
      [] s = "float32" -> "Float32"
      [] s = "float64" -> "Float64"
      [] s = "blob" -> "Blob"
      [] s = "string" -> "String"
      [] s = "set" -> "Set"
      [] s = "map" -> "Map"
      [] s = "value" -> "Value"
      [] s = "email" -> "Email"
      [] s = "age" -> "Age"
      [] OTHER -> s

(***************************************************************************)
(* getGoStructName and getGoTypeName.                                      *)
(***************************************************************************)
\* getGoStructName with the key and the value of a MapDef exchanged
RECURSIVE getGoStructNameSwapped(_)
getGoStructNameSwapped(typeDef) ==
    IF IsString(typeDef)
    THEN IF typeDef.v \in NomsTypeNames THEN Title(typeDef.v) ELSE Panic
    ELSE IF IsMap(typeDef)
    THEN LET typ == Get(typeDef, "$type")
         IN  IF ~IsString(typ) THEN Panic
             ELSE CASE typ.v = "noms.ListDef" ->
                         Sprintf(<<getGoStructNameSwapped(Get(typeDef, "elem")), "List">>)
                    [] typ.v = "noms.MapDef" ->
                         Sprintf(<<getGoStructNameSwapped(Get(typeDef, "value")),
                                   getGoStructNameSwapped(Get(typeDef, "key")), "Map">>)
                    [] typ.v = "noms.SetDef" ->
                         Sprintf(<<getGoStructNameSwapped(Get(typeDef, "elem")), "Set">>)
                    [] typ.v = "noms.StructDef" ->
                         LET name == Get(typeDef, "$name")
                         IN  IF IsString(name) THEN name.v ELSE Panic
                    [] OTHER -> Panic
    ELSE Panic

RECURSIVE getGoStructName(_)
getGoStructName(typeDef) ==
    IF IsString(typeDef)
    THEN IF typeDef.v \in NomsTypeNames THEN Title(typeDef.v) ELSE Panic
    ELSE IF IsMap(typeDef)
    THEN LET typ == Get(typeDef, "$type")
         IN  IF ~IsString(typ) THEN Panic
             ELSE CASE typ.v = "noms.ListDef" ->
                         Sprintf(<<getGoStructName(Get(typeDef, "elem")), "List">>)
                    [] typ.v = "noms.MapDef" ->
                         Sprintf(<<getGoStructName(Get(typeDef, "key")),
                                   getGoStructName(Get(typeDef, "value")), "Map">>)
                    [] typ.v = "noms.SetDef" ->
                         Sprintf(<<getGoStructName(Get(typeDef, "elem")), "Set">>)
                    [] typ.v = "noms.StructDef" ->
                         LET name == Get(typeDef, "$name")
                         IN  IF IsString(name) THEN name.v ELSE Panic
                    [] OTHER -> Panic
    ELSE Panic

\* getGoTypeName that returns the empty name where getGoStructName fails
getGoTypeNameLenient(typeDef) ==
    LET typeName == getGoStructName(typeDef)
    IN  IF typeName = Panic THEN ""
        ELSE IF IsString(typeDef) THEN Sprintf(<<"types.", typeName>>) ELSE typeName

getGoTypeName(typeDef) ==
    LET typeName == getGoStructName(typeDef)
    IN  IF IsString(typeDef) THEN Sprintf(<<"types.", typeName>>) ELSE typeName

(***************************************************************************)
(* addType: the new value of toWrite, and the case in which it fails.      *)
(***************************************************************************)
addTypeFails(val) == ~IsString(val) /\ ~IsMap(val)

\* addType without the test of written
addTypeNoWritten(val, wr, tw) ==
    IF IsString(val) THEN tw
    ELSE IF val \in tw THEN tw
    ELSE tw \cup {val}

addType(val, wr, tw) ==
    IF IsString(val) THEN tw
    ELSE IF val \in wr \/ val \in tw THEN tw
    ELSE tw \cup {val}

(***************************************************************************)
(* The inputs: type definitions of at most MaxSize nodes.                  *)
(***************************************************************************)
ListDef(elem) == NewMap(("$type" :> NewString("noms.ListDef")) @@ ("elem" :> elem))

SetDef(elem) == NewMap(("$type" :> NewString("noms.SetDef")) @@ ("elem" :> elem))

MapDef(key, value) ==
    NewMap(("$type" :> NewString("noms.MapDef")) @@ ("key" :> key) @@ ("value" :> value))

StructDef(name, fields) ==
    NewMap(("$type" :> NewString("noms.StructDef")) @@ ("$name" :> NewString(name)) @@ fields)

\* a mapping whose discriminator is none of the four shapes
BogusDef == NewMap("$type" :> NewString("noms.Bogus"))

FieldKeys == {"email", "age"}

\* the key begins with the reserved sigil
HasSigil(sk) == SubSeq(sk, 1, 1) = "$"

RECURSIVE Size(_)
RECURSIVE SumSize(_, _)
SumSize(f, keys) ==
    IF keys = {} THEN 0
    ELSE LET key == CHOOSE x \in keys : TRUE
         IN  Size(f[key]) + SumSize(f, keys \ {key})

Size(val) ==
    IF IsMap(val)
    THEN 1 + SumSize(val.v, {key \in DOMAIN val.v : ~HasSigil(key)})
    ELSE 1

\* the shapes of a type definition: two scalar names (one of them not a
\* noms type name), a mapping with an unknown discriminator, and the four
\* known shapes
Shapes == {"int32", "frob", "bogus", "list", "set", "map", "struct"}

\* a descriptor <<shape, a, b>> names a shape and its children; Nil is an
\* absent child (for a record: a is the field email, b the field age)
ValidDesc(d) ==
    CASE d[1] \in {"int32", "frob", "bogus"} -> d[2] = Nil /\ d[3] = Nil
      [] d[1] \in {"list", "set"} -> d[2] # Nil /\ d[3] = Nil
      [] d[1] = "map" -> d[2] # Nil /\ d[3] # Nil
      [] OTHER -> TRUE

Fields(a, b) ==
    [key \in {x \in FieldKeys : (x = "email" /\ a # Nil) \/ (x = "age" /\ b # Nil)} |->
        IF key = "email" THEN a ELSE b]

Make(d) ==
    CASE d[1] = "int32" -> NewString("int32")
      [] d[1] = "frob" -> NewString("frob")
      [] d[1] = "bogus" -> BogusDef
      [] d[1] = "list" -> ListDef(d[2])
      [] d[1] = "set" -> SetDef(d[2])
      [] d[1] = "map" -> MapDef(d[2], d[3])
      [] OTHER -> StructDef("U", Fields(d[2], d[3]))

DescSize(d) ==
    1 + (IF d[2] = Nil THEN 0 ELSE Size(d[2])) + (IF d[3] = Nil THEN 0 ELSE Size(d[3]))

\* the descriptors of the type definitions of at most n nodes whose
\* children are in sub
Descs(sub, n) ==
    {d \in Shapes \X (sub \cup {Nil}) \X (sub \cup {Nil}) : ValidDesc(d) /\ DescSize(d) <= n}

\* the type definitions of at most MaxSize - 1 nodes, level by level
RECURSIVE Grow(_, _)
Grow(sub, n) ==
    IF n >= MaxSize THEN sub ELSE Grow({Make(d) : d \in Descs(sub, n)}, n + 1)

Children == Grow({}, 1)

Perms(S) ==
    {s \in [1..Cardinality(S) -> S] : \A i, j \in 1..Cardinality(S) : s[i] = s[j] => i = j}

(***************************************************************************)
(* The state of the test of the user collection while the generator runs:  *)
(* the test has not begun.                                                 *)
(***************************************************************************)
NoLoc == [oldDs |-> 0, oldUsers |-> 0, users |-> 0, ds |-> 0, email |-> "", oldVal |-> {}]

NoUser ==
    /\ heap = <<>>
    /\ dss = <<>>
    /\ store = 0
    /\ loc = NoLoc
    /\ upc = "off"
    /\ runs = 0

(***************************************************************************)
(* The state of the two calls of WriteGo that run at the same time, while  *)
(* one call runs alone: there are none.                                    *)
(***************************************************************************)
NoConc ==
    /\ shared = FALSE
    /\ ng = <<>>
    /\ proc = <<>>

(***************************************************************************)
(* State.  root: the argument val of WriteGo.  declared: the order in      *)
(* which the schema lists the field keys when it builds a record with      *)
(* NewMap.  written, toWrite: the fields of NG.  pc: the statement about   *)
(* to run.  t: the local t of WriteGo (val in the emitters).  iter: the    *)
(* entries val.Iter has still to deliver in writeStruct.  out: the blocks  *)
(* written to ng.w, each with its template, the type definition it was     *)
(* rendered for and the template data.  calls: the arguments of the calls  *)
(* of writeType so far.  iters: the loop bodies started.  panicIn: the     *)
(* function that panicked.  faulty: whether Execute can return an error.   *)
(* lost: the blocks whose Execute returned an error.  prevs: for each      *)
(* call of WriteGo that returned on this NG before the running one, its    *)
(* root and, at its return, written and the lengths of out and calls.      *)
(***************************************************************************)
InitOfSize(n) ==
    /\ \E d \in Descs(Children, n) : root = Make(d) /\ IsMap(root)
    /\ declared \in Perms(FieldKeys)
    /\ written = {}
    /\ toWrite = {}
    /\ pc = "header"
    /\ t = Nil
    /\ iter = <<>>
    /\ out = <<>>
    /\ calls = <<>>
    /\ iters = 0
    /\ panicIn = ""
    /\ faulty = FALSE
    /\ lost = <<>>
    /\ prevs = <<>>
    /\ NoUser
    /\ NoConc

Init == InitOfSize(MaxSize)

Block(tmpl, val, data) == [tmpl |-> tmpl, val |-> val, data |-> data]

\* Chk.Fail and a failed type assertion panic; nothing recovers, so the
\* panic unwinds WriteGo and nothing runs afterwards
Abort(fn) ==
    /\ pc' = "abort"
    /\ panicIn' = fn

\* a call ng.addType(val) followed by the statement at next
Register(val, next) ==
    IF addTypeFails(val)
    THEN Abort("addType") /\ UNCHANGED toWrite
    ELSE /\ toWrite' = addType(val, written, toWrite)
         /\ pc' = next
         /\ UNCHANGED panicIn

\* tmpl.Execute(ng.w, data) in a statement of its own: every caller
\* discards the error Execute returns.  Execute writes the block, or, with
\* a writer or a template that can fail, returns an error and the block
\* is lost
Render(b) ==
    \/ out' = Append(out, b) /\ UNCHANGED lost
    \/ faulty /\ lost' = Append(lost, b) /\ UNCHANGED out

\* the evaluation of the template data with a panic that discards what
\* was written so far
ExecuteRollback(tmpl, data, names, next) ==
    IF \E i \in 1..Len(names) : names[i] = Panic
    THEN Abort("getGoStructName") /\ out' = <<>> /\ UNCHANGED lost
    ELSE /\ Render(Block(tmpl, t, data))
         /\ pc' = next
         /\ UNCHANGED panicIn

\* the evaluation of the template data, then tmpl.Execute(ng.w, data)
Execute(tmpl, data, names, next) ==
    IF \E i \in 1..Len(names) : names[i] = Panic
    THEN Abort("getGoStructName") /\ UNCHANGED <<out, lost>>
    ELSE /\ Render(Block(tmpl, t, data))
         /\ pc' = next
         /\ UNCHANGED panicIn

\* WriteGo without line 37
HeaderDropped ==
    /\ pc = "header"
    /\ pc' = "addRoot"
    /\ UNCHANGED <<outside, lost, root, declared, written, toWrite, t, iter, out, calls, iters, panicIn>>

\* WriteGo, line 37
Header ==
    /\ pc = "header"
    /\ Render(Block("header", Nil, [PackageName |-> "user"]))
    /\ pc' = "addRoot"
    /\ UNCHANGED <<outside, root, declared, written, toWrite, t, iter, calls, iters, panicIn>>

\* WriteGo, line 39
AddRoot ==
    /\ pc = "addRoot"
    /\ Register(root, "loop")
    /\ UNCHANGED <<outside, lost, root, declared, written, t, iter, out, calls, iters>>

\* the loop condition tests the wrong set: the loop ends once something
\* is written
LoopExitWrongSet ==
    /\ pc = "loop"
    /\ written # {}
    /\ pc' = "done"
    /\ UNCHANGED <<outside, lost, root, declared, written, toWrite, t, iter, out, calls, iters, panicIn>>

\* WriteGo, line 41: the loop condition fails
LoopExit ==
    /\ pc = "loop"
    /\ toWrite = {}
    /\ pc' = "done"
    /\ UNCHANGED <<outside, lost, root, declared, written, toWrite, t, iter, out, calls, iters, panicIn>>

\* WriteGo, lines 41-42: Any returns some element of toWrite
LoopAny ==
    /\ pc = "loop"
    /\ toWrite # {}
    /\ \E e \in toWrite : t' = e
    /\ iters' = iters + 1
    /\ pc' = "remove"
    /\ UNCHANGED <<outside, lost, root, declared, written, toWrite, iter, out, calls, panicIn>>

\* line 43 without its effect: t stays in toWrite
RemoveDropped ==
    /\ pc = "remove"
    /\ pc' = "insert"
    /\ UNCHANGED <<outside, lost, root, declared, written, toWrite, t, iter, out, calls, iters, panicIn>>

\* WriteGo, line 43
Remove ==
    /\ pc = "remove"
    /\ toWrite' = toWrite \ {t}
    /\ pc' = "insert"
    /\ UNCHANGED <<outside, lost, root, declared, written, t, iter, out, calls, iters, panicIn>>

\* line 44 without its effect: t is not recorded as written
InsertDropped ==
    /\ pc = "insert"
    /\ pc' = "writeType"
    /\ UNCHANGED <<outside, lost, root, declared, written, toWrite, t, iter, out, calls, iters, panicIn>>

\* WriteGo, line 44
Insert ==
    /\ pc = "insert"
    /\ written' = written \cup {t}
    /\ pc' = "writeType"
    /\ UNCHANGED <<outside, lost, root, declared, toWrite, t, iter, out, calls, iters, panicIn>>

\* writeType with the record case as the default of the switch
DispatchDefault(val) ==
    LET typ == Get(val, "$type")
    IN  IF ~IsString(typ) THEN Panic
        ELSE CASE typ.v = "noms.ListDef" -> "writeList"
               [] typ.v = "noms.MapDef" -> "writeMap"
               [] typ.v = "noms.SetDef" -> "writeSet"
               [] OTHER -> "writeStruct"

\* the emitter writeType dispatches val to, or Panic
Dispatch(val) ==
    LET typ == Get(val, "$type")
    IN  IF ~IsString(typ) THEN Panic
        ELSE CASE typ.v = "noms.ListDef" -> "writeList"
               [] typ.v = "noms.MapDef" -> "writeMap"
               [] typ.v = "noms.SetDef" -> "writeSet"
               [] typ.v = "noms.StructDef" -> "writeStruct"
               [] OTHER -> Panic

\* WriteGo, line 45, and writeType
WriteType ==
    /\ pc = "writeType"
    /\ calls' = Append(calls, t)
    /\ IF Dispatch(t) = Panic
       THEN Abort("writeType")
       ELSE pc' = Dispatch(t) /\ UNCHANGED panicIn
    /\ UNCHANGED <<outside, lost, root, declared, written, toWrite, t, iter, out, iters>>

\* writeSet, lines 113-114
WriteSetAdd ==
    /\ pc = "writeSet"
    /\ Register(Get(t, "elem"), "setExec")
    /\ UNCHANGED <<outside, lost, root, declared, written, t, iter, out, calls, iters>>

\* writeSet, lines 116-124
WriteSetExec ==
    /\ pc = "setExec"
    /\ LET StructName == getGoTypeName(t)
           ElemName == getGoTypeName(Get(t, "elem"))
       IN  Execute("set", [StructName |-> StructName, ElemName |-> ElemName],
                   <<StructName, ElemName>>, "loop")
    /\ UNCHANGED <<outside, root, declared, written, toWrite, t, iter, calls, iters>>

\* writeList without the registration of the element type
WriteListAddDropped ==
    /\ pc = "writeList"
    /\ pc' = "listExec"
    /\ UNCHANGED <<outside, lost, root, declared, written, toWrite, t, iter, out, calls, iters, panicIn>>

\* writeList, lines 128-129
WriteListAdd ==
    /\ pc = "writeList"
    /\ Register(Get(t, "elem"), "listExec")
    /\ UNCHANGED <<outside, lost, root, declared, written, t, iter, out, calls, iters>>

\* writeList, lines 131-139
WriteListExec ==
    /\ pc = "listExec"
    /\ LET StructName == getGoTypeName(t)
           ElemName == getGoTypeName(Get(t, "elem"))
       IN  Execute("list", [StructName |-> StructName, ElemName |-> ElemName],
                   <<StructName, ElemName>>, "loop")
    /\ UNCHANGED <<outside, root, declared, written, toWrite, t, iter, calls, iters>>

\* writeMap, lines 143-144
WriteMapAddKey ==
    /\ pc = "writeMap"
    /\ Register(Get(t, "key"), "mapAddValue")
    /\ UNCHANGED <<outside, lost, root, declared, written, t, iter, out, calls, iters>>

\* writeMap without the registration of the value type
WriteMapAddValueDropped ==
    /\ pc = "mapAddValue"
    /\ pc' = "mapExec"
    /\ UNCHANGED <<outside, lost, root, declared, written, toWrite, t, iter, out, calls, iters, panicIn>>

\* writeMap, lines 145-146
WriteMapAddValue ==
    /\ pc = "mapAddValue"
    /\ Register(Get(t, "value"), "mapExec")
    /\ UNCHANGED <<outside, lost, root, declared, written, t, iter, out, calls, iters>>

\* writeMap, lines 148-158
WriteMapExec ==
    /\ pc = "mapExec"
    /\ LET StructName == getGoTypeName(t)
           KeyName == getGoTypeName(Get(t, "key"))
           ValueName == getGoTypeName(Get(t, "value"))
       IN  Execute("map",
                   [StructName |-> StructName, KeyName |-> KeyName, ValueName |-> ValueName],
                   <<StructName, KeyName, ValueName>>, "loop")
    /\ UNCHANGED <<outside, root, declared, written, toWrite, t, iter, calls, iters>>

\* the entries of m with the fields in the order of declaration
DeclaredIter(m) ==
    LET meta == SelectSeq(Iter(m), LAMBDA e : HasSigil(e[1]))
        ks == SelectSeq(declared, LAMBDA key : key \in DOMAIN m.v)
    IN  meta \o [i \in 1..Len(ks) |-> <<ks[i], m.v[ks[i]]>>]

\* writeStruct walking the fields in the order of declaration
WriteStructDeclared ==
    /\ pc = "writeStruct"
    /\ LET StructName == getGoTypeName(t)
       IN  Execute("struct", [StructName |-> StructName], <<StructName>>, "iter")
    /\ iter' = IF getGoTypeName(t) = Panic THEN iter ELSE DeclaredIter(t)
    /\ UNCHANGED <<outside, root, declared, written, toWrite, t, calls, iters>>

\* writeStruct, lines 162-169: the record header, then val.Iter starts
WriteStruct ==
    /\ pc = "writeStruct"
    /\ LET StructName == getGoTypeName(t)
       IN  Execute("struct", [StructName |-> StructName], <<StructName>>, "iter")
    /\ iter' = IF getGoTypeName(t) = Panic THEN iter ELSE Iter(t)
    /\ UNCHANGED <<outside, root, declared, written, toWrite, t, calls, iters>>

\* line 171 without the test of the sigil
IsFieldAlways(sk) == TRUE

\* the key is passed on to writeField
IsField(sk) == ~HasSigil(sk)

\* writeStruct, lines 169-175: the callback of val.Iter on the next entry
StructIter ==
    /\ pc = "iter"
    /\ IF iter = <<>>
       THEN pc' = "loop" /\ UNCHANGED iter
       ELSE IF IsField(Head(iter)[1])
            THEN pc' = "writeField" /\ UNCHANGED iter
            ELSE pc' = "iter" /\ iter' = Tail(iter)
    /\ UNCHANGED <<outside, lost, root, declared, written, toWrite, t, out, calls, iters, panicIn>>

\* writeField, line 179
WriteFieldAdd ==
    /\ pc = "writeField"
    /\ Register(Head(iter)[2], "fieldExec")
    /\ UNCHANGED <<outside, lost, root, declared, written, t, iter, out, calls, iters>>

\* writeField that renders the field without resolving the name of its
\* type
WriteFieldExecNoType ==
    /\ pc = "fieldExec"
    /\ LET fieldName == Head(iter)[1]
           StructName == getGoTypeName(t)
       IN  Execute("field",
                   [StructName |-> StructName, FieldType |-> "",
                    GoFieldName |-> Title(fieldName), FieldName |-> fieldName],
                   <<StructName>>, "iter")
    /\ iter' = Tail(iter)
    /\ UNCHANGED <<outside, root, declared, written, toWrite, t, calls, iters>>

\* writeField, lines 181-193, and the return to val.Iter
WriteFieldExec ==
    /\ pc = "fieldExec"
    /\ LET fieldName == Head(iter)[1]
           StructName == getGoTypeName(t)
           FieldType == getGoTypeName(Head(iter)[2])
       IN  Execute("field",
                   [StructName |-> StructName, FieldType |-> FieldType,
                    GoFieldName |-> Title(fieldName), FieldName |-> fieldName],
                   <<StructName, FieldType>>, "iter")
    /\ iter' = IF getGoTypeName(Head(iter)[2]) = Panic THEN iter ELSE Tail(iter)
    /\ UNCHANGED <<outside, root, declared, written, toWrite, t, calls, iters>>

Next ==
    \/ Header
    \/ AddRoot
    \/ LoopExit
    \/ LoopAny
    \/ Remove
    \/ Insert
    \/ WriteType
    \/ WriteSetAdd
    \/ WriteSetExec
    \/ WriteListAdd
    \/ WriteListExec
    \/ WriteMapAddKey
    \/ WriteMapAddValue
    \/ WriteMapExec
    \/ WriteStruct
    \/ StructIter
    \/ WriteFieldAdd
    \/ WriteFieldExec

Spec == Init /\ [][Next]_vars

\* the values a mapping holds under its keys without sigil
Kids(val) ==
    IF IsMap(val) THEN {val.v[key] : key \in {x \in DOMAIN val.v : ~HasSigil(x)}} ELSE {}

\* scalars are noms type names; a mapping has one of the four shapes with
\* the children of its shape, and a record has a name
RECURSIVE WellFormed(_)
WellFormed(val) ==
    IF IsString(val) THEN val.v \in NomsTypeNames
    ELSE /\ IsMap(val)
         /\ "$type" \in DOMAIN val.v
         /\ IsString(val.v["$type"])
         /\ LET typ == val.v["$type"].v
                keys == {x \in DOMAIN val.v : ~HasSigil(x)}
            IN  /\ \/ typ \in {"noms.ListDef", "noms.SetDef"} /\ keys = {"elem"}
                   \/ typ = "noms.MapDef" /\ keys = {"key", "value"}
                   \/ /\ typ = "noms.StructDef"
                      /\ "$name" \in DOMAIN val.v
                      /\ IsString(val.v["$name"])
                /\ \A c \in Kids(val) : WellFormed(c)

\* the runs on a well-formed root of at most LiveMaxSize nodes
LiveInit == InitOfSize(LiveMaxSize) /\ WellFormed(root)

\* WriteGo runs to its end or to a panic: the program does not stop
\* half-way
LiveSpec == LiveInit /\ [][Next]_vars /\ WF_vars(Next)

(***************************************************************************)
(* Notions the properties are stated with.                                 *)
(***************************************************************************)
\* the mappings (non-primitive type definitions) reachable from val
RECURSIVE Reachable(_)
Reachable(val) ==
    IF IsMap(val) THEN {val} \cup UNION {Reachable(c) : c \in Kids(val)} ELSE {}

\* the positions of the type blocks of the output
TypeBlocks == {i \in 1..Len(out) : out[i].tmpl \in {"list", "set", "map", "struct"}}

\* the number of places (parent and key) val is referenced from
Referrers(val) ==
    {<<p, key>> \in Reachable(root) \X {"elem", "key", "value", "email", "age"} :
        key \in DOMAIN p.v /\ p.v[key] = val}

\* the argument of the call of addType about to run, if one is
AtRegister == pc \in {"addRoot", "writeSet", "writeList", "writeMap", "mapAddValue", "writeField"}

RegisterArg ==
    CASE pc = "addRoot" -> root
      [] pc \in {"writeSet", "writeList"} -> Get(t, "elem")
      [] pc = "writeMap" -> Get(t, "key")
      [] pc = "mapAddValue" -> Get(t, "value")
      [] pc = "writeField" -> Head(iter)[2]
      [] OTHER -> Nil

(***************************************************************************)
(* C1: in one WriteGo call no type definition is passed to writeType       *)
(* twice and no type definition has two rendered type blocks, whatever     *)
(* element Any picks.                                                      *)
(***************************************************************************)
C1_AtMostOnce ==
    /\ \A i, j \in 1..Len(calls) : calls[i] = calls[j] => i = j
    /\ \A i, j \in TypeBlocks : out[i].val = out[j].val => i = j

\* the run ended and a type referenced from two places was emitted
C1_Witness ==
    /\ pc = "done"
    /\ \E val \in written : Cardinality(Referrers(val)) >= 2

(***************************************************************************)
(* C2: when WriteGo returns, the set written and the set of type           *)
(* definitions with a type block are both the set of mappings reachable    *)
(* from the root; a scalar is never in toWrite or written and has no       *)
(* block.                                                                  *)
(***************************************************************************)
C2_EmittedIsReachable ==
    /\ \A val \in written \cup toWrite : IsMap(val)
    /\ \A i \in TypeBlocks : IsMap(out[i].val)
    /\ pc = "done" =>
          /\ written = Reachable(root)
          /\ {out[i].val : i \in TypeBlocks} = Reachable(root)

\* the run ended on a root with a scalar child and a mapping child
C2_Witness ==
    /\ pc = "done"
    /\ \E c \in Kids(root) : IsString(c)
    /\ Cardinality(Reachable(root)) >= 3

(***************************************************************************)
(* C3: toWrite and written are disjoint in every state, and their union,   *)
(* counting the element t that line 43 has taken out of toWrite and line   *)
(* 44 is about to put into written, never loses an element in a step; so   *)
(* the union at one loop head contains the union at the loop head before.  *)
(***************************************************************************)
Known == toWrite \cup written \cup (IF pc = "insert" THEN {t} ELSE {})

C3_DisjointMonotone ==
    /\ [](toWrite \cap written = {})
    /\ [][Known \subseteq Known']_vars
    /\ [][pc = "loop" => toWrite \cup written \subseteq toWrite' \cup written']_vars
    /\ [](pc = "loop" => Known = toWrite \cup written)

\* both sets are non-empty at a loop head
C3_Witness ==
    /\ pc = "loop"
    /\ toWrite # {}
    /\ written # {}

(***************************************************************************)
(* C4: a call addType(val) for a mapping val leaves written alone; it      *)
(* leaves toWrite alone when val is in written or in toWrite and adds      *)
(* val to toWrite otherwise; a second call right after the first changes   *)
(* nothing.                                                                *)
(***************************************************************************)
C4_Idempotent ==
    /\ [][(AtRegister /\ IsMap(RegisterArg)) =>
            /\ written' = written
            /\ toWrite' = IF RegisterArg \in written \cup toWrite
                          THEN toWrite
                          ELSE toWrite \cup {RegisterArg}]_vars
    /\ [](\A val \in Reachable(root) :
            /\ addType(val, written, addType(val, written, toWrite))
                  = addType(val, written, toWrite)
            /\ val \in written => addType(val, written, toWrite) = toWrite)

\* addType is called for a mapping that is still in toWrite
C4_Witness ==
    /\ AtRegister
    /\ IsMap(RegisterArg)
    /\ RegisterArg \in toWrite

(***************************************************************************)
(* C5: on a well-formed root the loop of WriteGo ends with toWrite empty   *)
(* after as many iterations as there are distinct mappings reachable from  *)
(* the root.                                                               *)
(***************************************************************************)
C5_Terminates ==
    WellFormed(root) ~>
        (pc = "done" /\ toWrite = {} /\ iters = Cardinality(Reachable(root)))

\* the loop ended after three iterations or more
C5_Witness ==
    /\ pc = "done"
    /\ toWrite = {}
    /\ iters >= 3

(***************************************************************************)
(* C6: the StructName of every type block is the name the five rules give  *)
(* to the type definition of the block: the capitalized scalar name,       *)
(* elem + "List", key + value + "Map", elem + "Set", the $name of a        *)
(* record.                                                                 *)
(***************************************************************************)
Capitalized(s) ==
    CASE s = "int32" -> "Int32"
      [] s = "bool" -> "Bool"
      [] s = "string" -> "String"
      [] OTHER -> "?"

RECURSIVE RuleName(_)
RuleName(val) ==
    IF IsString(val) THEN Capitalized(val.v)
    ELSE LET typ == val.v["$type"].v
         IN  CASE typ = "noms.ListDef" -> RuleName(val.v["elem"]) \o "List"
               [] typ = "noms.MapDef" -> RuleName(val.v["key"]) \o RuleName(val.v["value"]) \o "Map"
               [] typ = "noms.SetDef" -> RuleName(val.v["elem"]) \o "Set"
               [] typ = "noms.StructDef" -> val.v["$name"].v
               [] OTHER -> "?"

C6_NamesFollowRules ==
    \A i \in TypeBlocks : out[i].data.StructName = RuleName(out[i].val)

\* a MapDef with distinct key and value names and a ListDef were rendered
C6_Witness ==
    /\ \E i \in TypeBlocks :
          /\ out[i].tmpl = "map"
          /\ RuleName(out[i].val.v["key"]) # RuleName(out[i].val.v["value"])
    /\ \E i \in TypeBlocks : out[i].tmpl \in {"list", "set"}

(***************************************************************************)
(* C7: two type blocks of one WriteGo call that declare the same           *)
(* StructName are blocks of the same type definition.                      *)
(***************************************************************************)
C7_NamesDistinct ==
    \A i, j \in TypeBlocks :
        out[i].data.StructName = out[j].data.StructName => out[i].val = out[j].val

(***************************************************************************)
(* The field entries of a record block.                                    *)
(***************************************************************************)
StructBlocks == {i \in 1..Len(out) : out[i].tmpl = "struct"}

\* the number of field blocks that directly follow the block at i
RECURSIVE RunLen(_)
RunLen(i) ==
    IF i + 1 <= Len(out) /\ out[i + 1].tmpl = "field" THEN 1 + RunLen(i + 1) ELSE 0

\* their field names, in the order of the output
FieldRun(i) == [k \in 1..RunLen(i) |-> out[i + k].data.FieldName]

\* writeStruct has returned for the record block at i
Complete(i) == out[i].val # t \/ pc \in {"loop", "done"}

\* the keys without sigil of a mapping in the order of Iter
IterFields(m) ==
    LET es == SelectSeq(Iter(m), LAMBDA e : ~HasSigil(e[1]))
    IN  [k \in 1..Len(es) |-> es[k][1]]

\* the position of a key in the declaration
DeclaredPos(key) == CHOOSE k \in 1..Len(declared) : declared[k] = key

C9_MetadataExcluded ==
    /\ pc \in {"writeField", "fieldExec"} => ~HasSigil(Head(iter)[1])
    /\ \A i \in 1..Len(out) : out[i].tmpl = "field" => ~HasSigil(out[i].data.FieldName)
    /\ \A i \in StructBlocks :
          Complete(i) =>
             /\ \A j, k \in 1..RunLen(i) : FieldRun(i)[j] = FieldRun(i)[k] => j = k
             /\ {FieldRun(i)[k] : k \in 1..RunLen(i)}
                   = {key \in DOMAIN out[i].val.v : ~HasSigil(key)}
             /\ \A c \in Kids(out[i].val) : IsMap(c) => c \in Known

\* writeStruct has returned for a record with a field, having skipped
\* $name and $type
C9_Witness ==
    \E i \in StructBlocks :
        /\ Complete(i)
        /\ RunLen(i) >= 1
        /\ {"$name", "$type"} \subseteq DOMAIN out[i].val.v

(***************************************************************************)
(* C10: a type definition passed to writeType whose discriminator is none  *)
(* of the four shapes makes writeType panic: it is the last one passed,    *)
(* no block was rendered for it, and nothing runs after the panic, so      *)
(* WriteGo does not return.                                                *)
(***************************************************************************)
UnknownShape(val) ==
    \/ "$type" \notin DOMAIN val.v
    \/ ~IsString(val.v["$type"])
    \/ val.v["$type"].v \notin {"noms.ListDef", "noms.MapDef", "noms.SetDef", "noms.StructDef"}

C10_FatalUnknown ==
    /\ [](\A i \in 1..Len(calls) :
            UnknownShape(calls[i]) =>
               /\ i = Len(calls)
               /\ pc = "abort"
               /\ panicIn = "writeType"
               /\ \A j \in 1..Len(out) : out[j].val # calls[i])
    /\ [][pc # "abort" /\ pc # "done"]_vars

\* writeType panicked on an unknown shape
C10_Witness ==
    /\ pc = "abort"
    /\ panicIn = "writeType"
    /\ calls # <<>>
    /\ UnknownShape(calls[Len(calls)])

(***************************************************************************)
(* Type definitions that miss a required child.  MalSpec runs WriteGo on   *)
(* the type definitions of at most MalMaxSize nodes and on each of them    *)
(* with one required key taken away from the root or from a child of the   *)
(* root.                                                                   *)
(***************************************************************************)
MalMaxSize == 3

RequiredKeys == {"$type", "$name", "elem", "key", "value"}

\* the mapping val without the entry of key
DropKey(val, key) == NewMap([x \in DOMAIN val.v \ {key} |-> val.v[x]])

\* the type definitions of fewer than max nodes, level by level
RECURSIVE GrowTo(_, _, _)
GrowTo(sub, n, max) ==
    IF n >= max THEN sub ELSE GrowTo({Make(d) : d \in Descs(sub, n)}, n + 1, max)

\* val, and val with one required key dropped at val or at a child of val
Damaged(val) ==
    {val}
    \cup {DropKey(val, key) : key \in RequiredKeys \cap DOMAIN val.v}
    \cup UNION {{NewMap([val.v EXCEPT ![ck] = DropKey(val.v[ck], key)]) :
                    key \in RequiredKeys \cap DOMAIN val.v[ck].v} :
                 ck \in {x \in DOMAIN val.v : IsMap(val.v[x])}}

MalInit ==
    /\ \E d \in Descs(GrowTo({}, 1, MalMaxSize), MalMaxSize) :
          IsMap(Make(d)) /\ root \in Damaged(Make(d))
    /\ declared \in Perms(FieldKeys)
    /\ written = {}
    /\ toWrite = {}
    /\ pc = "header"
    /\ t = Nil
    /\ iter = <<>>
    /\ out = <<>>
    /\ calls = <<>>
    /\ iters = 0
    /\ panicIn = ""
    /\ faulty = FALSE
    /\ lost = <<>>
    /\ prevs = <<>>
    /\ NoUser
    /\ NoConc

MalSpec == MalInit /\ [][Next]_vars

\* the graph of val holds a scalar name that is no noms type name, or a
\* mapping of a known shape that misses a child its shape requires
RECURSIVE Malformed(_)
Malformed(val) ==
    IF IsString(val) THEN val.v \notin NomsTypeNames
    ELSE IF ~IsMap(val) THEN TRUE
    ELSE LET typ == Get(val, "$type")
         IN  IF ~IsString(typ) THEN TRUE
             ELSE CASE typ.v \in {"noms.ListDef", "noms.SetDef"} -> Malformed(Get(val, "elem"))
                    [] typ.v = "noms.MapDef" ->
                         Malformed(Get(val, "key")) \/ Malformed(Get(val, "value"))
                    [] typ.v = "noms.StructDef" ->
                         \/ ~IsString(Get(val, "$name"))
                         \/ \E key \in DOMAIN val.v : ~HasSigil(key) /\ Malformed(val.v[key])
                    [] OTHER -> FALSE

\* some mapping of the graph of val misses a key its shape requires
RECURSIVE MissingChild(_)
MissingChild(val) ==
    /\ IsMap(val)
    /\ \/ \E key \in DOMAIN val.v : ~HasSigil(key) /\ MissingChild(val.v[key])
       \/ "$type" \notin DOMAIN val.v
       \/ /\ "$type" \in DOMAIN val.v
          /\ CASE val.v["$type"].v \in {"noms.ListDef", "noms.SetDef"} -> "elem" \notin DOMAIN val.v
               [] val.v["$type"].v = "noms.MapDef" -> {"key", "value"} \ DOMAIN val.v # {}
               [] val.v["$type"].v = "noms.StructDef" -> "$name" \notin DOMAIN val.v
               [] OTHER -> FALSE

(***************************************************************************)
(* C15: WriteGo on a type definition whose graph holds an unknown scalar   *)
(* name or a mapping that misses a required child never returns: the run   *)
(* stops only in a panic, with the type that holds the fault in toWrite    *)
(* or being emitted.                                                       *)
(***************************************************************************)
C15_MalformedAborts ==
    Malformed(root) =>
        /\ pc # "done"
        /\ ~ENABLED Next => pc = "abort"

\* a child of the root misses a child: the run panicked after the block
\* of the root, with toWrite not empty
C15_Witness ==
    /\ MissingChild(root)
    /\ pc = "abort"
    /\ toWrite # {}
    /\ Len(out) >= 2

(***************************************************************************)
(* Failing renderings.  FailSpec runs WriteGo on the type definitions of   *)
(* at most FailMaxSize nodes with a writer or a template for which any     *)
(* call of Execute can return an error.                                    *)
(***************************************************************************)
FailMaxSize == 3

FailInit ==
    /\ \E d \in Descs(GrowTo({}, 1, FailMaxSize), FailMaxSize) : root = Make(d) /\ IsMap(root)
    /\ declared \in Perms(FieldKeys)
    /\ written = {}
    /\ toWrite = {}
    /\ pc = "header"
    /\ t = Nil
    /\ iter = <<>>
    /\ out = <<>>
    /\ calls = <<>>
    /\ iters = 0
    /\ panicIn = ""
    /\ faulty = TRUE
    /\ lost = <<>>
    /\ prevs = <<>>
    /\ NoUser
    /\ NoConc

FailSpec == FailInit /\ [][Next]_vars

(***************************************************************************)
(* C11: a rendering that fails is fatal: once a call of Execute has        *)
(* returned an error the run has panicked, no block is rendered after it   *)
(* and WriteGo does not return.                                            *)
(***************************************************************************)
C11_RenderFailureFatal == lost # <<>> => pc = "abort"

(***************************************************************************)
(* Further calls on one NG.  AgainSpec runs WriteGo on a type definition   *)
(* of at most AgainMaxSize nodes and then, up to MaxCalls calls in all,    *)
(* again on the same NG: with the same root, with a child of it, with a    *)
(* list of it, or with a type definition the NG has not seen.  The writer  *)
(* of the NG is the same in every call, so out and calls go on growing.    *)
(***************************************************************************)
AgainMaxSize == 3

MaxCalls == 2

NextRoots(val) ==
    {val, ListDef(val), SetDef(NewString("int32"))} \cup {c \in Kids(val) : IsMap(c)}

\* WriteGo returned; the client calls ng.WriteGo(val, pkg) once more
WriteGoAgain ==
    /\ pc = "done"
    /\ Len(prevs) + 1 < MaxCalls
    /\ prevs' = Append(prevs, [root |-> root, written |-> written,
                               out |-> Len(out), calls |-> Len(calls)])
    /\ root' \in NextRoots(root)
    /\ pc' = "header"
    /\ UNCHANGED <<userVars, concVars, faulty, lost, declared, written, toWrite, t, iter, out, calls, iters,
                   panicIn>>

AgainInit ==
    /\ \E d \in Descs(GrowTo({}, 1, AgainMaxSize), AgainMaxSize) : root = Make(d) /\ IsMap(root)
    /\ declared \in Perms(FieldKeys)
    /\ written = {}
    /\ toWrite = {}
    /\ pc = "header"
    /\ t = Nil
    /\ iter = <<>>
    /\ out = <<>>
    /\ calls = <<>>
    /\ iters = 0
    /\ panicIn = ""
    /\ faulty = FALSE
    /\ lost = <<>>
    /\ prevs = <<>>
    /\ NoUser
    /\ NoConc

AgainNext == Next \/ WriteGoAgain

AgainSpec == AgainInit /\ [][AgainNext]_vars

\* the call of WriteGo before the running one
Prev == prevs[Len(prevs)]

(***************************************************************************)
(* C20: written outlives a call of WriteGo.  In a further call on the same *)
(* NG the header is rendered again, as the first block of that call, and   *)
(* no type definition that was in written when the call began is passed    *)
(* to writeType or rendered; a call with the root of the call before it    *)
(* returns with the header as its whole output.                            *)
(***************************************************************************)
C20_WrittenPersists ==
    prevs # <<>> =>
        /\ Prev.written \subseteq written
        /\ \A i \in (Prev.calls + 1)..Len(calls) : calls[i] \notin Prev.written
        /\ \A i \in (Prev.out + 2)..Len(out) : out[i].val \notin Prev.written
        /\ pc = "header" => Len(out) = Prev.out
        /\ pc # "header" => Len(out) > Prev.out /\ out[Prev.out + 1].tmpl = "header"
        /\ (pc = "done" /\ root = Prev.root) =>
              Len(out) = Prev.out + 1 /\ Len(calls) = Prev.calls

\* the second call, with the root of the first, returned: two blocks or
\* more from the first call, the header alone from the second
C20_Witness ==
    /\ prevs # <<>>
    /\ pc = "done"
    /\ root = Prev.root
    /\ Prev.out >= 2
    /\ Len(out) = Prev.out + 1
    /\ out[Len(out)].tmpl = "header"

(***************************************************************************)
(* C12: the output of a WriteGo call on a fresh context starts with the    *)
(* header block, rendered before the root is registered and before any     *)
(* type block, and holds no other header block.                            *)
(***************************************************************************)
C12_HeaderFirst ==
    /\ pc = "header" => out = <<>> /\ toWrite = {} /\ written = {} /\ calls = <<>>
    /\ pc # "header" =>
          /\ Len(out) >= 1
          /\ out[1].tmpl = "header"
          /\ \A i \in 2..Len(out) : out[i].tmpl \in {"list", "set", "map", "struct", "field"}

\* WriteGo returned with a header and two type blocks or more
C12_Witness ==
    /\ pc = "done"
    /\ Cardinality(TypeBlocks) >= 2
    /\ out[1].tmpl = "header"

(***************************************************************************)
(* C14: from the call of writeType on, the element t of the iteration is   *)
(* in written and not in toWrite, and no step puts a type definition that  *)
(* is in written back into toWrite, so a registration of an emitted type   *)
(* during a later emission does not queue it again.                        *)
(***************************************************************************)
EmitterPcs ==
    {"writeType", "writeSet", "setExec", "writeList", "listExec", "writeMap",
     "mapAddValue", "mapExec", "writeStruct", "iter", "writeField", "fieldExec"}

C14_EmittedBeforeEmitter ==
    /\ [](pc \in EmitterPcs => t \in written /\ t \notin toWrite)
    /\ [][pc = "insert" => pc' = "writeType" /\ t \in written' /\ t \notin toWrite']_vars
    /\ [][\A val \in written : val \notin toWrite']_vars

\* addType is called for a type definition that was emitted before
C14_Witness ==
    /\ AtRegister
    /\ pc # "addRoot"
    /\ IsMap(RegisterArg)
    /\ RegisterArg \in written
    /\ RegisterArg # t

(***************************************************************************)
(* C16: the output is never shortened or changed, also not by the step     *)
(* that panics: after a panic the header, the block of every type whose    *)
(* emitter returned, and the record block and field entries rendered       *)
(* before a malformed field are still in the output.                       *)
(***************************************************************************)
C16_NoRollback ==
    /\ [][Len(out') >= Len(out) /\ SubSeq(out', 1, Len(out)) = out]_vars
    /\ [](pc = "abort" =>
            /\ Len(out) >= 1
            /\ out[1].tmpl = "header"
            /\ \A val \in written \ {t} : \E i \in TypeBlocks : out[i].val = val)

\* the panic came in the second field of a record: the header, the record
\* block and the first field entry are in the output
C16_Witness ==
    /\ pc = "abort"
    /\ panicIn = "getGoStructName"
    /\ Len(out) >= 3
    /\ out[Len(out)].tmpl = "field"
    /\ out[Len(out)].val = t
    /\ out[Len(out) - 1].tmpl = "struct"

(***************************************************************************)
(* C18: at the head of the loop and at the return of WriteGo every         *)
(* mapping that is a direct child of a type definition in written is in    *)
(* toWrite or in written; with toWrite empty, written is closed under the  *)
(* child relation.                                                         *)
(***************************************************************************)
C18_ChildrenKnown ==
    pc \in {"loop", "done"} =>
        /\ \A val \in written : \A c \in Kids(val) : IsMap(c) => c \in toWrite \cup written
        /\ toWrite = {} => \A val \in written : \A c \in Kids(val) : IsMap(c) => c \in written

\* at the head of the loop a child of an emitted type is still pending
C18_Witness ==
    /\ pc = "loop"
    /\ \E val \in written : \E c \in Kids(val) : c \in toWrite

(***************************************************************************)
(* C19: a type definition with an unknown discriminator that is not the    *)
(* root is never passed to writeType: while it is in toWrite the emitter   *)
(* of a type that holds it is running or has panicked, and it never gets   *)
(* into written; writeType panics only on the root.                        *)
(***************************************************************************)
C19_UnknownOnlyRoot ==
    /\ \A i \in 1..Len(calls) : UnknownShape(calls[i]) => calls[i] = root
    /\ panicIn = "writeType" => t = root
    /\ \A val \in toWrite \cup written :
          (UnknownShape(val) /\ val # root) =>
             /\ val \in toWrite
             /\ val \in Kids(t)
             /\ pc \in EmitterPcs \cup {"abort"}
             /\ pc = "abort" => panicIn = "getGoStructName"

\* the emitter of the parent panicked with the unknown child registered
C19_Witness ==
    /\ pc = "abort"
    /\ panicIn = "getGoStructName"
    /\ \E val \in toWrite : UnknownShape(val) /\ val # root /\ val \in Kids(t)

(***************************************************************************)
(* The versioned user collection (package user) as TestInsertUser uses it. *)
(* The sets of users and the datastores are objects: heap[i] is the        *)
(* content of the set with the reference i, dss[i].head is the reference   *)
(* of the set the datastore i has as its users (0: none), store is the     *)
(* root the MemoryStore holds.  loc holds the locals of the test, with     *)
(* the email it inserts and the content oldUsers had when line 16 read     *)
(* it; upc is the line the test is at; runs counts the runs of the test    *)
(* on the one MemoryStore.                                                 *)
(***************************************************************************)
Emails == {"foo@bar.com", "a@b.c", "x@y.z"}

MaxRuns == 3

User(email) == NewMap("email" :> NewString(email))

\* datastore.NewDataStore(store): the new datastore has the root of the
\* store as its head
NewDataStore(d, st) == Append(d, [head |-> st])

\* GetUsers(ds): the heap and the reference of the set of users of ds, a
\* new empty set if ds has none
GetUsers(h, d, id) ==
    IF d[id].head = 0 THEN <<Append(h, {}), Len(h) + 1>> ELSE <<h, d[id].head>>

\* InsertUser that adds the user to the set it was given
InsertUserInPlace(h, id, email) ==
    Append([h EXCEPT ![id] = @ \cup {User(email)}], h[id] \cup {User(email)})

\* InsertUser(users, email): the heap with a new set, users and the user
\* of email
InsertUser(h, id, email) == Append(h, h[id] \cup {User(email)})

\* CommitUsers(ds, users): the datastores with a new one whose head is
\* users
CommitUsers(d, id, users) == Append(d, [head |-> users])

\* the state of the generator while the test runs: no call of WriteGo
NoWriteGo ==
    /\ root = Nil
    /\ declared = <<>>
    /\ written = {}
    /\ toWrite = {}
    /\ pc = "off"
    /\ t = Nil
    /\ iter = <<>>
    /\ out = <<>>
    /\ calls = <<>>
    /\ iters = 0
    /\ panicIn = ""
    /\ faulty = FALSE
    /\ lost = <<>>
    /\ prevs = <<>>

UserInit ==
    /\ NoWriteGo
    /\ NoConc
    /\ heap = <<>>
    /\ dss = <<>>
    /\ store = 0
    /\ loc = NoLoc
    /\ upc = "newDataStore"
    /\ runs = 1

\* line 14
TestNewDataStore ==
    /\ upc = "newDataStore"
    /\ dss' = NewDataStore(dss, store)
    /\ loc' = [loc EXCEPT !.oldDs = Len(dss')]
    /\ upc' = "getOldUsers"
    /\ UNCHANGED <<nomgenVars, concVars, heap, store, runs>>

\* lines 16-17
TestGetOldUsers ==
    /\ upc = "getOldUsers"
    /\ LET r == GetUsers(heap, dss, loc.oldDs)
       IN  /\ heap' = r[1]
           /\ loc' = [loc EXCEPT !.oldUsers = r[2], !.oldVal = r[1][r[2]]]
    /\ upc' = "insertUser"
    /\ UNCHANGED <<nomgenVars, concVars, dss, store, runs>>

\* lines 18-20
TestInsertUser ==
    /\ upc = "insertUser"
    /\ \E email \in Emails :
          /\ heap' = InsertUser(heap, loc.oldUsers, email)
          /\ loc' = [loc EXCEPT !.users = Len(heap'), !.email = email]
    /\ upc' = "commitUsers"
    /\ UNCHANGED <<nomgenVars, concVars, dss, store, runs>>

\* line 21
TestCommitUsers ==
    /\ upc = "commitUsers"
    /\ dss' = CommitUsers(dss, loc.oldDs, loc.users)
    /\ store' = loc.users
    /\ loc' = [loc EXCEPT !.ds = Len(dss')]
    /\ upc' = "getUsers"
    /\ UNCHANGED <<nomgenVars, concVars, heap, runs>>

\* line 22
TestGetUsers ==
    /\ upc = "getUsers"
    /\ LET r == GetUsers(heap, dss, loc.ds)
       IN  /\ heap' = r[1]
           /\ loc' = [loc EXCEPT !.users = r[2]]
    /\ upc' = "asserts"
    /\ UNCHANGED <<nomgenVars, concVars, dss, store, runs>>

\* lines 23-28 read only; then the test runs again on the same store
TestAgain ==
    /\ upc = "asserts"
    /\ runs < MaxRuns
    /\ runs' = runs + 1
    /\ loc' = NoLoc
    /\ upc' = "newDataStore"
    /\ UNCHANGED <<nomgenVars, concVars, heap, dss, store>>

UserNext ==
    \/ TestNewDataStore
    \/ TestGetOldUsers
    \/ TestInsertUser
    \/ TestCommitUsers
    \/ TestGetUsers
    \/ TestAgain

UserSpec == UserInit /\ [][UserNext]_vars

\* what GetUsers(ds).Len() and users.Any() look at: the content of the set
\* of users of the datastore id
UsersOf(id) == IF dss[id].head = 0 THEN {} ELSE heap[dss[id].head]

ConcMaxSize == 2

\* the calls of writeType on one NG the model follows
MaxDispatch == 3

Procs == {1, 2}

\* every call on the first NG
CtxOfShared(p) == 1

\* the NG the call p runs on: New gives every call an NG of its own unless
\* the client passes one NG to both
CtxOf(p) == IF shared THEN 1 ELSE p

\* the children an emitter passes to addType, in the order of its calls
ChildSeq(val) ==
    LET typ == Get(val, "$type").v
    IN  CASE typ \in {"noms.ListDef", "noms.SetDef"} -> <<Get(val, "elem")>>
          [] typ = "noms.MapDef" -> <<Get(val, "key"), Get(val, "value")>>
          [] OTHER -> LET es == SelectSeq(Iter(val), LAMBDA e : IsField(e[1]))
                      IN  [i \in 1..Len(es) |-> es[i][2]]

ConcRoots ==
    {val \in {Make(d) : d \in Descs(GrowTo({}, 1, ConcMaxSize), ConcMaxSize)} :
        IsMap(val) /\ WellFormed(val)}

\* the roots of the first call in the runs on one NG
SharedRoots == {ListDef(NewString("int32")), StructDef("U", "email" :> NewString("int32"))}

ConcInit ==
    /\ NoWriteGo
    /\ NoUser
    /\ shared \in BOOLEAN
    /\ ng = [c \in Procs |-> [written |-> {}, toWrite |-> {}, calls |-> <<>>, reg |-> {}]]
    /\ \E r1 \in IF shared THEN SharedRoots ELSE ConcRoots : \E r2 \in NextRoots(r1) :
          proc = [p \in Procs |-> [root |-> IF p = 1 THEN r1 ELSE r2, pc |-> "addRoot",
                                   t |-> Nil, tmp |-> {}, kids |-> <<>>]]

\* WriteGo, lines 37-39: the header, and addType(val) up to the evaluation
\* of ng.toWrite.Insert(val)
ConcAddRoot(p) ==
    LET c == CtxOf(p)
        tw == addType(proc[p].root, ng[c].written, ng[c].toWrite)
    IN  /\ proc[p].pc = "addRoot"
        /\ proc' = IF tw = ng[c].toWrite
                   THEN [proc EXCEPT ![p].pc = "loop"]
                   ELSE [proc EXCEPT ![p].pc = "rootWrite", ![p].tmp = tw]
        /\ UNCHANGED <<nomgenVars, userVars, shared, ng>>

\* addType, line 58: the assignment to ng.toWrite, for the root
ConcRootWrite(p) ==
    LET c == CtxOf(p)
    IN  /\ proc[p].pc = "rootWrite"
        /\ ng' = [ng EXCEPT ![c].toWrite = proc[p].tmp, ![c].reg = @ \cup {proc[p].root}]
        /\ proc' = [proc EXCEPT ![p].pc = "loop"]
        /\ UNCHANGED <<nomgenVars, userVars, shared>>

\* WriteGo, line 41, with toWrite empty
ConcLoopExit(p) ==
    /\ proc[p].pc = "loop"
    /\ ng[CtxOf(p)].toWrite = {}
    /\ proc' = [proc EXCEPT ![p].pc = "done"]
    /\ UNCHANGED <<nomgenVars, userVars, shared, ng>>

\* WriteGo, lines 41-42
ConcLoopAny(p) ==
    /\ proc[p].pc = "loop"
    /\ Len(ng[CtxOf(p)].calls) < MaxDispatch
    /\ \E x \in ng[CtxOf(p)].toWrite :
          proc' = [proc EXCEPT ![p].pc = "removeRead", ![p].t = x]
    /\ UNCHANGED <<nomgenVars, userVars, shared, ng>>

\* line 43: the evaluation of ng.toWrite.Remove(t)
ConcRemoveRead(p) ==
    /\ proc[p].pc = "removeRead"
    /\ proc' = [proc EXCEPT ![p].pc = "removeWrite",
                            ![p].tmp = ng[CtxOf(p)].toWrite \ {proc[p].t}]
    /\ UNCHANGED <<nomgenVars, userVars, shared, ng>>

\* line 43: the assignment to ng.toWrite
ConcRemoveWrite(p) ==
    /\ proc[p].pc = "removeWrite"
    /\ ng' = [ng EXCEPT ![CtxOf(p)].toWrite = proc[p].tmp]
    /\ proc' = [proc EXCEPT ![p].pc = "insertRead"]
    /\ UNCHANGED <<nomgenVars, userVars, shared>>

\* line 44: the evaluation of ng.written.Insert(t)
ConcInsertRead(p) ==
    /\ proc[p].pc = "insertRead"
    /\ proc' = [proc EXCEPT ![p].pc = "insertWrite",
                            ![p].tmp = ng[CtxOf(p)].written \cup {proc[p].t}]
    /\ UNCHANGED <<nomgenVars, userVars, shared, ng>>

\* line 44: the assignment to ng.written
ConcInsertWrite(p) ==
    /\ proc[p].pc = "insertWrite"
    /\ ng' = [ng EXCEPT ![CtxOf(p)].written = proc[p].tmp]
    /\ proc' = [proc EXCEPT ![p].pc = "writeType"]
    /\ UNCHANGED <<nomgenVars, userVars, shared>>

\* line 45 and writeType: the call of the emitter of t
ConcWriteType(p) ==
    /\ proc[p].pc = "writeType"
    /\ ng' = [ng EXCEPT ![CtxOf(p)].calls = Append(@, proc[p].t)]
    /\ proc' = [proc EXCEPT ![p].pc = "emit", ![p].kids = ChildSeq(proc[p].t)]
    /\ UNCHANGED <<nomgenVars, userVars, shared>>

\* an emitter: addType of the next child up to the evaluation of
\* ng.toWrite.Insert(val), or, after the last child, Execute and the
\* return to the loop
ConcEmit(p) ==
    LET c == CtxOf(p)
        kids == proc[p].kids
    IN  /\ proc[p].pc = "emit"
        /\ proc' = IF kids = <<>>
                   THEN [proc EXCEPT ![p].pc = "loop"]
                   ELSE LET tw == addType(Head(kids), ng[c].written, ng[c].toWrite)
                        IN  IF tw = ng[c].toWrite
                            THEN [proc EXCEPT ![p].kids = Tail(kids)]
                            ELSE [proc EXCEPT ![p].pc = "addWrite", ![p].tmp = tw]
        /\ UNCHANGED <<nomgenVars, userVars, shared, ng>>

\* addType, line 58: the assignment to ng.toWrite, for a child
ConcAddWrite(p) ==
    LET c == CtxOf(p)
    IN  /\ proc[p].pc = "addWrite"
        /\ ng' = [ng EXCEPT ![c].toWrite = proc[p].tmp,
                            ![c].reg = @ \cup {Head(proc[p].kids)}]
        /\ proc' = [proc EXCEPT ![p].pc = "emit", ![p].kids = Tail(proc[p].kids)]
        /\ UNCHANGED <<nomgenVars, userVars, shared>>

ConcNext ==
    \E p \in Procs :
        \/ ConcAddRoot(p)
        \/ ConcRootWrite(p)
        \/ ConcLoopExit(p)
        \/ ConcLoopAny(p)
        \/ ConcRemoveRead(p)
        \/ ConcRemoveWrite(p)
        \/ ConcInsertRead(p)
        \/ ConcInsertWrite(p)
        \/ ConcWriteType(p)
        \/ ConcEmit(p)
        \/ ConcAddWrite(p)

ConcSpec == ConcInit /\ [][ConcNext]_vars

\* a type definition was passed to writeType twice on the NG c
Dispatched2(c) ==
    \E i, j \in 1..Len(ng[c].calls) : i < j /\ ng[c].calls[i] = ng[c].calls[j]

\* every call on the NG c has returned and a type definition that was put
\* into its toWrite was never passed to writeType
Lost(c) ==
    /\ \A p \in Procs : CtxOf(p) = c => proc[p].pc = "done"
    /\ \E val \in ng[c].reg : \A i \in 1..Len(ng[c].calls) : ng[c].calls[i] # val

(***************************************************************************)
(* C17: with an NG of its own for each of two calls of WriteGo that run    *)
(* at the same time, no type definition is passed to writeType twice on    *)
(* an NG and none that was put into toWrite stays without its call when    *)
(* the calls have returned; on one NG for both calls such states are       *)
(* reached (the witnesses).                                                *)
(***************************************************************************)
C17_FreshContextSafe ==
    ~shared =>
        \A c \in Procs :
            /\ ~Dispatched2(c)
            /\ ~Lost(c)
            /\ proc[c].pc = "done" =>
                  ng[c].toWrite = {} /\ ng[c].written = Reachable(proc[c].root)

\* one NG for both calls: a type definition was passed to writeType twice
C17_Witness == shared /\ Dispatched2(1)

\* one NG for both calls: a type definition put into toWrite got no call
C17_WitnessLost == shared /\ Lost(1)

====
